---- MODULE Spec2Model ----
(***************************************************************************)
(* A model of gist (serialprimate/gist): the walker, the Tree-sitter block *)
(* extractor, the identity functions, the indexing pipeline, the vector    *)
(* store adapter and the two CLI commands.                                 *)
(*                                                                         *)
(* Text is modelled as sequences of one-character strings, so that path    *)
(* suffixes, joins and integer formatting are computed as the code         *)
(* computes them.  Python's None is the value None.                        *)
(***************************************************************************)
EXTENDS Integers, Sequences, FiniteSets, TLC

VARIABLES
    exPath,      \* extractor: the path handed to extract_code_blocks
    exTree,      \* extractor: the syntax tree the parser returns for it
    exPc,        \* extractor: "ready" | "returned" | "raised"
    exEmitted,   \* extractor: the nodes appended to blocks, in order
    exBlocks,    \* extractor: the returned list of ExtractedCodeBlock
    idFields,    \* identity: the keyword arguments of compute_block_id
    idBlockId,   \* identity: the returned block_id, None before the call
    wkFs,        \* walker: the directory tree under root
    wkIgnored,   \* walker: the entries whose path the gitignore spec matches
    wkStack,     \* walker: Path.walk's stack of directories still to list
    wkListed,    \* walker: the directories listed so far
    wkYielded,   \* walker: the files yielded so far, in order
    wkPc,        \* walker: "walking" | "done"
    stCollection,  \* store: the engine's collection, block_id -> entry
    stEngineCalls, \* store: the calls the engine has received
    stCall,        \* store: the last VectorStore call and what preceded it
    stHits,        \* store: the hits the last query returned
    stRejectsDuplicates, \* engine: whether upsert rejects a batch naming an id twice
    ixFiles,       \* pipeline: the content of each file of ROOT
    ixRejected,    \* pipeline: the texts the embedder raises on
    ixDirExists,   \* pipeline: whether ROOT/.gist/chroma exists
    ixCollection,  \* pipeline: the persisted collection
    ixPc,          \* pipeline: "idle" | "running" | "returned"
    ixMode,        \* pipeline: "cli" (index command) | "lib" (index_root call)
    ixYield,       \* pipeline: the files the walker yields in this run
    ixQueue,       \* pipeline: the files the loop has still to take
    ixProcessed,   \* pipeline: the files handed to _index_file, in order
    ixErrors,      \* pipeline: the calls on_file_error received, in order
    ixStats,       \* pipeline: the three counters of index_root
    ixUpserted,    \* pipeline: the block_ids upserted by this run
    ixBase,        \* pipeline: the outcome of the run before, root unchanged
    ixCliDone,     \* pipeline: an index command has completed for ROOT
    ixWiped,       \* pipeline: the block_ids the last index command removed
    ixCalls,       \* pipeline: the embedder and store calls of this run, in order
    seLast,        \* search command: the outcome of the last one
    seFailed,      \* search command: one has failed on ROOT
    sePc           \* search command run beside an index command: its position

exVars == <<exPath, exTree, exPc, exEmitted, exBlocks>>
idVars == <<idFields, idBlockId>>
wkVars == <<wkFs, wkIgnored, wkStack, wkListed, wkYielded, wkPc>>

stVars == <<stCollection, stEngineCalls, stCall, stHits>>

ixVars ==
    <<ixFiles, ixRejected, ixDirExists, ixCollection, ixPc, ixMode, ixYield,
      ixQueue, ixProcessed, ixErrors, ixStats, ixUpserted, ixBase, ixCliDone, ixWiped,
      ixCalls, seLast, seFailed>>

seVars == <<sePc>>

\* the engine is not part of the program: no action changes how it behaves
engVars == <<stRejectsDuplicates>>

vars == <<exVars, idVars, wkVars, stVars, ixVars, seVars, engVars>>

\* what an action of one part leaves alone: the other parts
exOthers == <<idVars, wkVars, stVars, ixVars, seVars, engVars>>
idOthers == <<exVars, wkVars, stVars, ixVars, seVars, engVars>>
wkOthers == <<exVars, idVars, stVars, ixVars, seVars, engVars>>
stOthers == <<exVars, idVars, wkVars, ixVars, seVars, engVars>>
ixOthers == <<exVars, idVars, wkVars, stVars, seVars, engVars>>
seOthers == <<exVars, idVars, wkVars, stVars, engVars>>

\* Python's None: a text no source text equals
None == <<"<None>">>

-----------------------------------------------------------------------------
(* Bounds *)

MaxNodes == 3   \* nodes of a generated syntax tree
MaxLine == 2    \* source lines of a generated file
MaxLineNo == 11 \* line numbers handed to compute_block_id
MaxEntries == 3 \* files and directories below the walked root
MaxBatch == 2   \* blocks, and embeddings, handed to one upsert_blocks call
MaxTopK == 3    \* the largest top_k handed to query

-----------------------------------------------------------------------------
(* Sequences and text *)

RECURSIVE SortedSeq(_)
SortedSeq(S) ==
    IF S = {} THEN <<>>
    ELSE LET m == CHOOSE x \in S : \A y \in S : x <= y
         IN <<m>> \o SortedSeq(S \ {m})

Range(s) == {s[i] : i \in 1..Len(s)}

\* str.lower() on the characters the model uses
Lower(c) ==
    CASE c = "P" -> "p"
      [] c = "Y" -> "y"
      [] OTHER -> c

RECURSIVE LastIndexOf(_, _)
LastIndexOf(s, c) ==
    IF s = <<>> THEN 0
    ELSE IF s[Len(s)] = c THEN Len(s)
    ELSE LastIndexOf(SubSeq(s, 1, Len(s) - 1), c)

\* PurePath.suffix of a file name: from the last dot, unless the name starts
\* or ends with it
Suffix(name) ==
    LET i == LastIndexOf(name, ".")
    IN IF 1 < i /\ i < Len(name) THEN SubSeq(name, i, Len(name)) ELSE <<>>

\* the two hexadecimal digits of a character's code
HexOfChar ==
    ("a" :> <<"6", "1">>)
    @@ ("b" :> <<"6", "2">>)
    @@ ("c" :> <<"6", "3">>)
    @@ ("d" :> <<"6", "4">>)
    @@ ("e" :> <<"6", "5">>)
    @@ ("f" :> <<"6", "6">>)
    @@ ("g" :> <<"6", "7">>)
    @@ ("h" :> <<"6", "8">>)
    @@ ("i" :> <<"6", "9">>)
    @@ ("j" :> <<"6", "a">>)
    @@ ("k" :> <<"6", "b">>)
    @@ ("l" :> <<"6", "c">>)
    @@ ("m" :> <<"6", "d">>)
    @@ ("n" :> <<"6", "e">>)
    @@ ("o" :> <<"6", "f">>)
    @@ ("p" :> <<"7", "0">>)
    @@ ("q" :> <<"7", "1">>)
    @@ ("r" :> <<"7", "2">>)
    @@ ("s" :> <<"7", "3">>)
    @@ ("t" :> <<"7", "4">>)
    @@ ("u" :> <<"7", "5">>)
    @@ ("v" :> <<"7", "6">>)
    @@ ("w" :> <<"7", "7">>)
    @@ ("x" :> <<"7", "8">>)
    @@ ("y" :> <<"7", "9">>)
    @@ ("z" :> <<"7", "a">>)
    @@ ("0" :> <<"3", "0">>)
    @@ ("1" :> <<"3", "1">>)
    @@ ("2" :> <<"3", "2">>)
    @@ ("3" :> <<"3", "3">>)
    @@ ("4" :> <<"3", "4">>)
    @@ ("5" :> <<"3", "5">>)
    @@ ("6" :> <<"3", "6">>)
    @@ ("7" :> <<"3", "7">>)
    @@ ("8" :> <<"3", "8">>)
    @@ ("9" :> <<"3", "9">>)
    @@ ("P" :> <<"5", "0">>)
    @@ ("X" :> <<"5", "8">>)
    @@ ("Y" :> <<"5", "9">>)
    @@ ("." :> <<"2", "e">>)
    @@ (":" :> <<"3", "a">>)
    @@ ("/" :> <<"2", "f">>)

RECURSIVE HexEncode(_)
HexEncode(s) ==
    IF s = <<>> THEN <<>> ELSE HexOfChar[Head(s)] \o HexEncode(Tail(s))

\* hashlib.sha256(msg).hexdigest(), taken as collision-free: a text over
\* 0-9a-f that determines msg
sha256_hexdigest(msg) == HexEncode(msg)

DigitChar == <<"0", "1", "2", "3", "4", "5", "6", "7", "8", "9">>

\* str(n) of a non-negative int, as an f-string formats it
RECURSIVE Str(_)
Str(n) ==
    IF n < 10 THEN <<DigitChar[n + 1]>>
    ELSE Str(n \div 10) \o <<DigitChar[(n % 10) + 1]>>

\* the source text of node i: distinct nodes span distinct texts
NodeText(i) == <<"d", DigitChar[i + 1]>>

-----------------------------------------------------------------------------
(* extractor.py *)

SUPPORTED_SUFFIX_TO_LANGUAGE ==
    (<<".", "p", "y">> :> "python")
    @@ (<<".", "j", "s">> :> "javascript")
    @@ (<<".", "t", "s">> :> "typescript")
    @@ (<<".", "c", "p", "p">> :> "cpp")

LANGUAGE_NODE_TYPES ==
    [python |-> {"function_definition", "class_definition"},
     javascript |-> {"function_declaration", "class_declaration", "method_definition"},
     typescript |-> {"function_declaration", "class_declaration", "method_definition"},
     cpp |-> {"function_definition", "class_specifier", "struct_specifier"}]

CLASS_NODE_TYPES ==
    [python |-> {"class_definition"},
     javascript |-> {"class_declaration"},
     typescript |-> {"class_declaration"},
     cpp |-> {"class_specifier", "struct_specifier"}]

\* detect_language's None: no language name equals it
NoLanguage == "None"

detect_language(name) ==
    LET suffix == [i \in 1..Len(Suffix(name)) |-> Lower(Suffix(name)[i])]
    IN IF suffix \in DOMAIN SUPPORTED_SUFFIX_TO_LANGUAGE
       THEN SUPPORTED_SUFFIX_TO_LANGUAGE[suffix]
       ELSE NoLanguage

\* A syntax tree is a record of functions over its nodes 1..n, numbered in
\* document (pre-)order, node 1 the root: parent (0 for the root), type,
\* start_row and end_row (0-indexed, as Tree-sitter's points), text (the
\* source bytes of the node's span) and name (the text of the "name" field
\* child, or None).
Nodes(t) == DOMAIN t.parent

Children(t, n) == SortedSeq({c \in Nodes(t) : t.parent[c] = n})

RECURSIVE IsAncestor(_, _, _)
IsAncestor(t, a, n) ==
    IF t.parent[n] = 0 THEN FALSE
    ELSE t.parent[n] = a \/ IsAncestor(t, a, t.parent[n])

RECURSIVE find_parent_class(_, _, _)
find_parent_class(t, language, current) ==
    IF current = 0 THEN None
    ELSE IF t.type[current] \in CLASS_NODE_TYPES[language]
    THEN IF t.name[current] # None THEN t.name[current]
         ELSE LET idents == {c \in Nodes(t) :
                                /\ t.parent[c] = current
                                /\ t.type[c] \in {"type_identifier", "identifier"}}
              IN IF language \in {"cpp"} /\ idents # {}
                 THEN t.text[CHOOSE c \in idents : \A d \in idents : c <= d]
                 ELSE None
    ELSE find_parent_class(t, language, t.parent[current])

resolve_parent_class_name(t, language, node) ==
    find_parent_class(t, language, t.parent[node])

\* The mutant of walk: descends below an emitted class node too.
RECURSIVE walk_into_classes(_, _, _)
RECURSIVE walk_into_classes_all(_, _, _)
walk_into_classes(t, language, node) ==
    (IF t.type[node] \in LANGUAGE_NODE_TYPES[language] THEN <<node>> ELSE <<>>)
        \o walk_into_classes_all(t, language, Children(t, node))

walk_into_classes_all(t, language, cs) ==
    IF cs = <<>> THEN <<>>
    ELSE walk_into_classes(t, language, Head(cs))
             \o walk_into_classes_all(t, language, Tail(cs))

\* walk(node): the nodes appended to blocks by the call, in order
RECURSIVE walk(_, _, _)
RECURSIVE walk_children(_, _, _)
walk(t, language, node) ==
    IF t.type[node] \in LANGUAGE_NODE_TYPES[language]
    THEN IF t.type[node] \in CLASS_NODE_TYPES[language]
         THEN <<node>>
         ELSE <<node>> \o walk_children(t, language, Children(t, node))
    ELSE walk_children(t, language, Children(t, node))

walk_children(t, language, cs) ==
    IF cs = <<>> THEN <<>>
    ELSE walk(t, language, Head(cs)) \o walk_children(t, language, Tail(cs))

ExtractedCodeBlock(path, t, language, node) ==
    [filename |-> path,
     start_line |-> t.start_row[node] + 1,
     end_line |-> t.end_row[node] + 1,
     code |-> t.text[node],
     parent_class |-> resolve_parent_class_name(t, language, node)]

\* The nodes emitted by extract_code_blocks for a file of a supported language
extract_nodes(name, t) == walk(t, detect_language(name), 1)

extract_code_blocks(path, name, t) ==
    LET ns == extract_nodes(name, t)
    IN [i \in 1..Len(ns) |-> ExtractedCodeBlock(path, t, detect_language(name), ns[i])]

-----------------------------------------------------------------------------
(* indexer.py: the identity functions *)

compute_content_hash(code) == sha256_hexdigest(code)

\* The mutant of compute_block_id: the fields joined with no delimiter.
compute_block_id_undelimited(filename, start_line, end_line, content_hash) ==
    sha256_hexdigest(filename \o Str(start_line) \o Str(end_line) \o content_hash)

compute_block_id(filename, start_line, end_line, content_hash) ==
    LET stable == filename \o <<":">> \o Str(start_line) \o <<":">>
                      \o Str(end_line) \o <<":">> \o content_hash
    IN sha256_hexdigest(stable)

\* root-relative file names that could make the join ambiguous: they hold
\* the delimiter and digits, and some are a prefix of others' joins
IdFilenames ==
    {<<"a">>, <<"a", ":", "1">>, <<"a", ":", "1", ":", "1">>,
     <<"1">>, <<":">>, <<"1", ":">>}

IdContentHashes == {compute_content_hash(NodeText(1)), compute_content_hash(NodeText(2))}

IdTuples ==
    [filename : IdFilenames, start_line : 1..MaxLineNo, end_line : 1..MaxLineNo,
     content_hash : IdContentHashes]

BlockIdOf(f) ==
    compute_block_id(f.filename, f.start_line, f.end_line, f.content_hash)

\* the block_id of every tuple of fields
BlockIdTable == [f \in IdTuples |-> BlockIdOf(f)]

IdOff ==
    /\ idFields = None
    /\ idBlockId = None

ComputeBlockId ==
    /\ idBlockId = None
    /\ idBlockId' = BlockIdOf(idFields)
    /\ UNCHANGED <<idFields, idOthers>>

\* C3: two tuples (filename, start_line, end_line, content_hash) that differ
\* in at least one field have different block_ids.
C3_BlockIdInjective ==
    idBlockId # None =>
        \A f \in IdTuples : f # idFields => BlockIdTable[f] # idBlockId

\* a block_id was computed for a file name that holds a ':' and a digit
C3_Witness ==
    /\ idBlockId # None
    /\ {":", "1"} \subseteq Range(idFields.filename)
    /\ idFields.start_line >= 10

-----------------------------------------------------------------------------
(* walker.py *)

DEFAULT_EXCLUDED_DIR_NAMES ==
    {<<".", "g", "i", "t">>,
     <<".", "g", "i", "s", "t">>,
     <<".", "v", "e", "n", "v">>,
     <<".", "m", "y", "p", "y", "_", "c", "a", "c", "h", "e">>,
     <<".", "p", "y", "t", "e", "s", "t", "_", "c", "a", "c", "h", "e">>,
     <<"_", "_", "p", "y", "c", "a", "c", "h", "e", "_", "_">>,
     <<"n", "o", "d", "e", "_", "m", "o", "d", "u", "l", "e", "s">>,
     <<"d", "i", "s", "t">>,
     <<"b", "u", "i", "l", "d">>,
     <<".", "t", "o", "x">>,
     <<".", "r", "u", "f", "f", "_", "c", "a", "c", "h", "e">>,
     <<".", "i", "d", "e", "a">>,
     <<".", "v", "s", "c", "o", "d", "e">>}

\* The directory tree under root is a record of functions over its entries
\* 1..n: parent (0 for root itself, else a directory entry), isDir and name
\* (the base name).  Entries are numbered in the order scandir lists them.
Entries(fs) == DOMAIN fs.parent

\* is_ignored(path): gitignore.match_file on the root-relative posix path,
\* with a trailing "/" for a directory; the spec's verdict per path is given
is_ignored(ignored, e) == e \in ignored

Reverse(s) == [i \in 1..Len(s) |-> s[Len(s) + 1 - i]]

\* The mutant of KeptDirnames: prunes by the excluded names only.
KeptDirnamesNoGitignore(fs, ignored, dir) ==
    LET keep(e) == fs.name[e] \notin DEFAULT_EXCLUDED_DIR_NAMES
    IN SelectSeq(SortedSeq({e \in Entries(fs) : fs.parent[e] = dir /\ fs.isDir[e]}), keep)

\* dirnames[:] = kept
KeptDirnames(fs, ignored, dir) ==
    LET keep(e) ==
            /\ fs.name[e] \notin DEFAULT_EXCLUDED_DIR_NAMES
            /\ ~is_ignored(ignored, e)
    IN SelectSeq(SortedSeq({e \in Entries(fs) : fs.parent[e] = dir /\ fs.isDir[e]}), keep)

\* the files of a listed directory that the loop body yields
YieldedFilenames(fs, ignored, dir) ==
    LET keep(e) ==
            /\ detect_language(fs.name[e]) # NoLanguage
            /\ ~is_ignored(ignored, e)
    IN SelectSeq(SortedSeq({e \in Entries(fs) : fs.parent[e] = dir /\ ~fs.isDir[e]}), keep)

\* the whole sequence iter_supported_files yields, from Path.walk's stack
RECURSIVE WalkFrom(_, _, _)
WalkFrom(fs, ignored, stack) ==
    IF stack = <<>> THEN <<>>
    ELSE LET dir == stack[Len(stack)]
         IN YieldedFilenames(fs, ignored, dir)
                \o WalkFrom(fs, ignored,
                            SubSeq(stack, 1, Len(stack) - 1)
                                \o Reverse(KeptDirnames(fs, ignored, dir)))

iter_supported_files(fs, ignored) == WalkFrom(fs, ignored, <<0>>)

WkEntryKinds ==
    {[isDir |-> TRUE, name |-> <<"s", "r", "c">>],
     [isDir |-> TRUE, name |-> <<"b", "u", "i", "l", "d">>],
     [isDir |-> FALSE, name |-> <<"a", ".", "p", "y">>],
     [isDir |-> FALSE, name |-> <<"B", ".", "P", "Y">>],
     [isDir |-> FALSE, name |-> <<"n", ".", "t", "x", "t">>]}

WkOff ==
    /\ wkFs = [parent |-> <<>>, isDir |-> <<>>, name |-> <<>>]
    /\ wkIgnored = {}
    /\ wkStack = <<>>
    /\ wkListed = {}
    /\ wkYielded = <<>>
    /\ wkPc = "off"

\* one iteration of `for current_dir, dirnames, filenames in root.walk()`:
\* Path.walk pops a directory and lists it, the body prunes dirnames in
\* place and yields the files, Path.walk pushes the kept directories
WalkDirectory ==
    /\ wkPc = "walking"
    /\ wkStack # <<>>
    /\ LET dir == wkStack[Len(wkStack)]
       IN /\ wkListed' = wkListed \cup {dir}
          /\ wkYielded' = wkYielded \o YieldedFilenames(wkFs, wkIgnored, dir)
          /\ wkStack' = SubSeq(wkStack, 1, Len(wkStack) - 1)
                            \o Reverse(KeptDirnames(wkFs, wkIgnored, dir))
    /\ UNCHANGED <<wkFs, wkIgnored, wkPc, wkOthers>>

\* Path.walk's stack is empty: the generator is exhausted
WalkExhausted ==
    /\ wkPc = "walking"
    /\ wkStack = <<>>
    /\ wkPc' = "done"
    /\ UNCHANGED <<wkFs, wkIgnored, wkStack, wkListed, wkYielded, wkOthers>>

-----------------------------------------------------------------------------
(* store.py *)

Min(a, b) == IF a <= b THEN a ELSE b

HasDuplicates(s) == \E i, j \in 1..Len(s) : i < j /\ s[i] = s[j]

\* The engine's collection is a function from the stored ids to entries
\* [document, metadata, embedding].
EmptyCollection == <<>>

\* the metadata dict upsert_blocks builds for a block
CodeBlockMetadata(block) ==
    [filename |-> block.filename,
     start_line |-> block.start_line,
     end_line |-> block.end_line,
     parent_class |-> block.parent_class,
     language |-> block.language,
     content_hash |-> block.content_hash]

\* collection.upsert(ids, documents, metadatas, embeddings): writes or
\* overwrites each entry in turn.  What the engine does with a batch that
\* names an id twice is its own: it rejects the batch (stRejectsDuplicates)
\* or writes the entries in turn, the last one staying.
RECURSIVE collection_upsert(_, _, _, _, _)
collection_upsert(coll, ids, documents, metadatas, embeddings) ==
    IF ids = <<>> THEN coll
    ELSE LET entry == [document |-> Head(documents),
                       metadata |-> Head(metadatas),
                       embedding |-> Head(embeddings)]
             rest == [i \in DOMAIN coll \ {Head(ids)} |-> coll[i]]
         IN collection_upsert((Head(ids) :> entry) @@ rest, Tail(ids),
                              Tail(documents), Tail(metadatas), Tail(embeddings))

\* The mutant of upsert_blocks: no length check, the pairs zipped as far as
\* the shorter sequence goes.
upsert_blocks_unchecked(coll, blocks, embeddings) ==
    LET n == Min(Len(blocks), Len(embeddings))
        ids == [i \in 1..n |-> blocks[i].block_id]
    IN IF HasDuplicates(ids) /\ stRejectsDuplicates
       THEN [raised |-> "DuplicateIDError", collection |-> coll, engine_calls |-> 1]
       ELSE [raised |-> "no",
             collection |->
                 collection_upsert(coll, ids,
                                   [i \in 1..n |-> blocks[i].code],
                                   [i \in 1..n |-> CodeBlockMetadata(blocks[i])],
                                   [i \in 1..n |-> embeddings[i]]),
             engine_calls |-> 1]

\* The mutant of upsert_blocks: collection.add in place of collection.upsert,
\* which rejects an id that is already stored.
upsert_blocks_add_only(coll, blocks, embeddings) ==
    LET ids == [i \in 1..Len(blocks) |-> blocks[i].block_id]
    IN IF Len(blocks) # Len(embeddings)
       THEN [raised |-> "ValueError", collection |-> coll, engine_calls |-> 0]
       ELSE IF (HasDuplicates(ids) /\ stRejectsDuplicates)
               \/ Range(ids) \cap DOMAIN coll # {}
       THEN [raised |-> "DuplicateIDError", collection |-> coll, engine_calls |-> 1]
       ELSE [raised |-> "no",
             collection |->
                 collection_upsert(coll, ids,
                                   [i \in 1..Len(blocks) |-> blocks[i].code],
                                   [i \in 1..Len(blocks) |-> CodeBlockMetadata(blocks[i])],
                                   [i \in 1..Len(blocks) |-> embeddings[i]]),
             engine_calls |-> 1]

\* VectorStore.upsert_blocks: what it raises ("no": nothing), the collection
\* after the call and the number of calls the engine received
upsert_blocks(coll, blocks, embeddings) ==
    LET ids == [i \in 1..Len(blocks) |-> blocks[i].block_id]
    IN IF Len(blocks) # Len(embeddings)
       THEN [raised |-> "ValueError", collection |-> coll, engine_calls |-> 0]
       ELSE IF HasDuplicates(ids) /\ stRejectsDuplicates
       THEN [raised |-> "DuplicateIDError", collection |-> coll, engine_calls |-> 1]
       ELSE [raised |-> "no",
             collection |->
                 collection_upsert(coll, ids,
                                   [i \in 1..Len(blocks) |-> blocks[i].code],
                                   [i \in 1..Len(blocks) |-> CodeBlockMetadata(blocks[i])],
                                   [i \in 1..Len(blocks) |-> embeddings[i]]),
             engine_calls |-> 1]

\* the collection's metric, on the one-dimensional embeddings of the model
Distance(a, b) == IF a[1] <= b[1] THEN b[1] - a[1] ELSE a[1] - b[1]

\* collection.query(query_embeddings=[q], n_results=n): the rankings the
\* engine may answer with: min(n, count) distinct stored ids, nearest first,
\* none left out that is nearer than one returned; ties in any order
NearestRankings(coll, q, n) ==
    LET k == Min(n, Cardinality(DOMAIN coll))
    IN {r \in [1..k -> DOMAIN coll] :
          /\ \A i, j \in 1..k : i < j =>
                /\ r[i] # r[j]
                /\ Distance(coll[r[i]].embedding, q) <= Distance(coll[r[j]].embedding, q)
          /\ \A x \in DOMAIN coll \ Range(r) :
                \A i \in 1..k :
                   Distance(coll[r[i]].embedding, q) <= Distance(coll[x].embedding, q)}

\* An optional number (float | None, list | None) is <<>> for None and <<v>>
\* for the value v.
NoValue == <<>>

\* the engine's columnar result for a ranking; "distances" may be left out
QueryResult(coll, q, r, with_distances) ==
    [ids |-> <<r>>,
     documents |-> <<[i \in 1..Len(r) |-> coll[r[i]].document]>>,
     metadatas |-> <<[i \in 1..Len(r) |-> coll[r[i]].metadata]>>,
     distances |-> IF with_distances
                   THEN <<[i \in 1..Len(r) |-> Distance(coll[r[i]].embedding, q)]>>
                   ELSE NoValue]

SearchHit(block_id, code, meta, distance) ==
    [block_id |-> block_id,
     filename |-> meta.filename,
     start_line |-> meta.start_line,
     end_line |-> meta.end_line,
     parent_class |-> meta.parent_class,
     language |-> meta.language,
     content_hash |-> meta.content_hash,
     code |-> code,
     distance |-> distance]

\* The mutant of query_hits: the loop stops one row early.
query_hits_short(result) ==
    LET ids == IF result.ids # <<>> THEN result.ids[1] ELSE <<>>
        docs == IF result.documents # <<>> THEN result.documents[1] ELSE <<>>
        metas == IF result.metadatas # <<>> THEN result.metadatas[1] ELSE <<>>
        count == Min(Len(ids), Min(Len(docs), Len(metas)))
    IN [idx \in 1..(count - 1) |-> SearchHit(ids[idx], docs[idx], metas[idx], NoValue)]

\* VectorStore.query after the engine answered: the columns to SearchHits
query_hits(result) ==
    LET ids == IF result.ids # <<>> THEN result.ids[1] ELSE <<>>
        docs == IF result.documents # <<>> THEN result.documents[1] ELSE <<>>
        metas == IF result.metadatas # <<>> THEN result.metadatas[1] ELSE <<>>
        dists == IF result.distances # NoValue
                 THEN <<result.distances[1]>> ELSE NoValue
        count == Min(Len(ids), Min(Len(docs), Len(metas)))
    IN [idx \in 1..count |->
          SearchHit(ids[idx], docs[idx], metas[idx],
                    IF dists # NoValue /\ idx <= Len(dists[1])
                    THEN <<dists[1][idx]>> ELSE NoValue)]

\* the blocks and embeddings the model hands to the store directly
StBlock(id, code) ==
    [block_id |-> id, filename |-> <<"a", ".", "p", "y">>, start_line |-> 1,
     end_line |-> 2, parent_class |-> None, language |-> "python",
     content_hash |-> compute_content_hash(code), code |-> code]

StBlocks ==
    {StBlock(<<"i", "1">>, NodeText(1)), StBlock(<<"i", "1">>, NodeText(2)),
     StBlock(<<"i", "2">>, NodeText(2)), StBlock(<<"i", "3">>, NodeText(3))}

StVectors == {<<0>>, <<1>>, <<3>>}

SeqsUpTo(S, n) == UNION {[1..k -> S] : k \in 0..n}

\* the contents a store can have: what upserts of these blocks leave
StCollections ==
    {upsert_blocks(EmptyCollection, b, e).collection :
        b \in {x \in SeqsUpTo(StBlocks, 3) :
                  ~HasDuplicates([i \in 1..Len(x) |-> x[i].block_id])},
        e \in SeqsUpTo(StVectors, 3)}

NoCall ==
    [op |-> "none", blocks |-> 0, embeddings |-> 0, top_k |-> 0, query |-> <<0>>,
     raised |-> "no", collection_before |-> EmptyCollection, engine_calls_before |-> 0]

StOff ==
    /\ stCollection = EmptyCollection
    /\ stEngineCalls = 0
    /\ stCall = NoCall
    /\ stHits = <<>>

\* store.upsert_blocks(blocks, embeddings)
UpsertBlocks ==
    \E blocks \in SeqsUpTo(StBlocks, MaxBatch), embeddings \in SeqsUpTo(StVectors, MaxBatch) :
        LET out == upsert_blocks(stCollection, blocks, embeddings)
        IN /\ stCall.op = "none"
           /\ stCollection' = out.collection
           /\ stEngineCalls' = stEngineCalls + out.engine_calls
           /\ stCall' = [op |-> "upsert", blocks |-> Len(blocks),
                         embeddings |-> Len(embeddings), top_k |-> 0, query |-> <<0>>,
                         raised |-> out.raised, collection_before |-> stCollection,
                         engine_calls_before |-> stEngineCalls]
           /\ UNCHANGED <<stHits, stOthers>>

\* store.query(embedding, top_k=top_k) with top_k <= 0: ValueError
QueryRejected ==
    \E q \in StVectors, top_k \in (-1)..MaxTopK :
        /\ top_k <= 0
        /\ stCall.op = "none"
        /\ stCall' = [op |-> "query", blocks |-> 0, embeddings |-> 0, top_k |-> top_k,
                      query |-> q, raised |-> "ValueError",
                      collection_before |-> stCollection,
                      engine_calls_before |-> stEngineCalls]
        /\ stHits' = <<>>
        /\ UNCHANGED <<stCollection, stEngineCalls, stOthers>>

\* store.query(embedding, top_k=top_k) with top_k > 0
QueryHits ==
    \E q \in StVectors, top_k \in (-1)..MaxTopK :
        /\ top_k > 0
        /\ stCall.op = "none"
        /\ \E r \in NearestRankings(stCollection, q, top_k), with_distances \in BOOLEAN :
              stHits' = query_hits(QueryResult(stCollection, q, r, with_distances))
        /\ stEngineCalls' = stEngineCalls + 1
        /\ stCall' = [op |-> "query", blocks |-> 0, embeddings |-> 0, top_k |-> top_k,
                      query |-> q, raised |-> "no", collection_before |-> stCollection,
                      engine_calls_before |-> stEngineCalls]
        /\ UNCHANGED <<stCollection, stOthers>>

-----------------------------------------------------------------------------
(* indexer.py: the pipeline, and main.py: the two commands *)

\* the tree of a source with no definition in it
EmptyTree ==
    [parent |-> <<0>>, type |-> <<"module">>, start_row |-> <<0>>,
     end_row |-> <<0>>, text |-> <<NodeText(1)>>, name |-> <<None>>]

\* ROOT, resolved
Root == <<"/", "r">>

\* root / name
ChildPath(root, name) == root \o <<"/">> \o name

\* file_path.relative_to(root).as_posix()
RelativeTo(path, root) == SubSeq(path, Len(root) + 2, Len(path))

\* the deterministic embedder of the tests: one float, the text's length
embed_text(text) == <<Len(text)>>

embed_texts(texts) == [i \in 1..Len(texts) |-> embed_text(texts[i])]

embed_query(query) == embed_text(query)

StoredBlock(block, rel_filename, language) ==
    LET content_hash == compute_content_hash(block.code)
    IN [block_id |-> compute_block_id(rel_filename, block.start_line,
                                      block.end_line, content_hash),
        filename |-> rel_filename,
        start_line |-> block.start_line,
        end_line |-> block.end_line,
        parent_class |-> block.parent_class,
        language |-> language,
        content_hash |-> content_hash,
        code |-> block.code]

\* The mutant of embed_calls: one embed_texts call per block.
embed_calls_per_block(file, texts) ==
    [i \in 1..Len(texts) |->
        [op |-> "embed_texts", file |-> file, texts |-> <<texts[i]>>, ids |-> <<>>,
         embeddings |-> <<>>]]

\* embedder.embed_texts([b.code for b in stored_blocks]), as the calls the
\* embedder receives for a file
embed_calls(file, texts) ==
    <<[op |-> "embed_texts", file |-> file, texts |-> texts, ids |-> <<>>,
       embeddings |-> <<>>]>>

\* store.upsert_blocks(stored_blocks, embeddings), as the calls the store
\* receives for a file
upsert_calls(file, stored_blocks, embeddings) ==
    <<[op |-> "upsert_blocks", file |-> file,
       texts |-> [i \in 1..Len(stored_blocks) |-> stored_blocks[i].code],
       ids |-> [i \in 1..Len(stored_blocks) |-> stored_blocks[i].block_id],
       embeddings |-> embeddings]>>

\* the value _index_file returns when the language is not supported
NoFileStats == [blocks_extracted |-> -1, blocks_indexed |-> -1]

\* _index_file(root, file_path, store, embedder) on a file whose bytes parse
\* to tree (unreadable: read_bytes raises): what it raises ("no": nothing),
\* the _FileIndexStats it returns, the collection after it and the ids it
\* upserted
index_file(root, file_path, unreadable, tree, coll, rejected) ==
    LET name == RelativeTo(file_path, root)
        language == detect_language(name)
        failed(exc, calls) == [raised |-> exc, stats |-> NoFileStats,
                               collection |-> coll, upserted |-> {}, calls |-> calls]
    IN IF language = NoLanguage
       THEN [raised |-> "no", stats |-> NoFileStats, collection |-> coll, upserted |-> {},
             calls |-> <<>>]
       ELSE IF unreadable THEN failed("OSError", <<>>)
       ELSE LET blocks == extract_code_blocks(file_path, name, tree)
                stored_blocks ==
                    [i \in 1..Len(blocks) |-> StoredBlock(blocks[i], name, language)]
                texts == [i \in 1..Len(stored_blocks) |-> stored_blocks[i].code]
                stats == [blocks_extracted |-> Len(blocks),
                          blocks_indexed |-> Len(stored_blocks)]
            IN IF stored_blocks = <<>>
               THEN [raised |-> "no", stats |-> stats, collection |-> coll, upserted |-> {},
                     calls |-> <<>>]
               ELSE IF Range(texts) \cap rejected # {}
               THEN failed("EmbedderError", embed_calls(name, texts))
               ELSE LET up == upsert_blocks(coll, stored_blocks, embed_texts(texts))
                        calls == embed_calls(name, texts)
                                     \o upsert_calls(name, stored_blocks, embed_texts(texts))
                    IN IF up.raised # "no" THEN failed(up.raised, calls)
                       ELSE [raised |-> "no", stats |-> stats,
                             collection |-> up.collection,
                             upserted |-> {stored_blocks[i].block_id :
                                              i \in 1..Len(stored_blocks)},
                             calls |-> calls]

\* on_file_error(file_path, exc), as the list of the calls it received
on_file_error(errors, file_path, exc) ==
    Append(errors, [file_path |-> file_path, exc |-> exc])

\* The mutant of AfterFileError: the handler leaves the loop.
AfterFileErrorBreak(queue) == <<>>

\* continue in the except clause: the loop goes on with the next file
AfterFileError(queue) == Tail(queue)

ZeroStats == [files_indexed |-> 0, blocks_extracted |-> 0, blocks_indexed |-> 0]

\* The mutant of AddFileStats: a file that produced no block is not counted.
AddFileStatsNonEmpty(stats, file_stats) ==
    [files_indexed |-> stats.files_indexed
                          + (IF file_stats.blocks_extracted > 0 THEN 1 ELSE 0),
     blocks_extracted |-> stats.blocks_extracted + file_stats.blocks_extracted,
     blocks_indexed |-> stats.blocks_indexed + file_stats.blocks_indexed]

\* the three += of the loop body
AddFileStats(stats, file_stats) ==
    [files_indexed |-> stats.files_indexed + 1,
     blocks_extracted |-> stats.blocks_extracted + file_stats.blocks_extracted,
     blocks_indexed |-> stats.blocks_indexed + file_stats.blocks_indexed]

\* The files of ROOT and the contents each can have.  A content is
\* "absent", "unreadable" or the name of the tree its bytes parse to.
IxFileNames == <<<<"a", ".", "p", "y">>, <<"b", ".", "j", "s">>>>

\* a source text of n characters
SourceText(n) == [i \in 1..n |-> "d"]

IxTrees ==
    [empty |-> EmptyTree,
     func |->
        [parent |-> <<0, 1>>, type |-> <<"module", "function_definition">>,
         start_row |-> <<0, 0>>, end_row |-> <<1, 1>>,
         text |-> <<SourceText(2), SourceText(2)>>, name |-> <<None, None>>],
     badtext |->
        [parent |-> <<0, 1>>, type |-> <<"module", "function_definition">>,
         start_row |-> <<0, 0>>, end_row |-> <<1, 1>>,
         text |-> <<SourceText(3), SourceText(3)>>, name |-> <<None, None>>],
     nested |->
        [parent |-> <<0, 1, 2>>,
         type |-> <<"module", "function_definition", "function_definition">>,
         start_row |-> <<0, 0, 1>>, end_row |-> <<2, 2, 2>>,
         text |-> <<SourceText(5), SourceText(5), SourceText(4)>>,
         name |-> <<None, None, None>>],
     jsfunc |->
        [parent |-> <<0, 1>>, type |-> <<"program", "function_declaration">>,
         start_row |-> <<0, 0>>, end_row |-> <<0, 0>>,
         text |-> <<SourceText(6), SourceText(6)>>, name |-> <<None, None>>],
     jsdup |->
        [parent |-> <<0, 1, 1>>,
         type |-> <<"program", "function_declaration", "function_declaration">>,
         start_row |-> <<0, 0, 0>>, end_row |-> <<0, 0, 0>>,
         text |-> <<SourceText(7), SourceText(7), SourceText(7)>>,
         name |-> <<None, None, None>>]]

IxContents ==
    <<{"unreadable", "empty", "func", "badtext", "nested"},
      {"absent", "unreadable", "jsfunc", "jsdup"}>>

\* the texts the embedder raises on
IxRejectedTexts == {SourceText(3)}

\* the query of the search command
IxQuery == SourceText(2)

IxTreeOf(content) ==
    IF content \in DOMAIN IxTrees THEN IxTrees[content] ELSE EmptyTree

\* the directory tree of ROOT: the files that exist, and the store's
\* directory .gist once it exists (entry Len(IxFileNames) + 1)
IxFs(files, dir_exists) ==
    LET present == {f \in DOMAIN files : files[f] # "absent"}
        gist == Len(IxFileNames) + 1
        entries == present \cup (IF dir_exists THEN {gist} ELSE {})
    IN [parent |-> [e \in entries |-> 0],
        isDir |-> [e \in entries |-> e = gist],
        name |-> [e \in entries |-> IF e = gist THEN <<".", "g", "i", "s", "t">> ELSE IxFileNames[e]]]

SEARCH_TOP_K == 3

NoSearch == [exit |-> -1, message |-> "", existed |-> FALSE, hits |-> <<>>]

IxOff ==
    /\ ixFiles = <<>>
    /\ ixRejected = {}
    /\ ixDirExists = FALSE
    /\ ixCollection = EmptyCollection
    /\ ixPc = "off"
    /\ ixMode = "none"
    /\ ixYield = <<>>
    /\ ixQueue = <<>>
    /\ ixProcessed = <<>>
    /\ ixErrors = <<>>
    /\ ixStats = ZeroStats
    /\ ixUpserted = {}
    /\ ixBase = <<>>
    /\ ixCliDone = FALSE
    /\ ixWiped = {}
    /\ ixCalls = <<>>
    /\ seLast = NoSearch
    /\ seFailed = FALSE
    /\ sePc = "idle"

\* a file of ROOT is written, replaced or deleted between two commands
EditFile ==
    /\ ixPc \in {"idle", "returned"}
    /\ \E f \in DOMAIN ixFiles :
         \E c \in IxContents[f] \ {ixFiles[f]} :
            ixFiles' = [ixFiles EXCEPT ![f] = c]
    /\ ixPc' = "idle"
    /\ ixMode' = "none"
    /\ ixYield' = <<>>
    /\ ixQueue' = <<>>
    /\ ixProcessed' = <<>>
    /\ ixErrors' = <<>>
    /\ ixStats' = ZeroStats
    /\ ixUpserted' = {}
    /\ ixBase' = <<>>
    /\ ixWiped' = {}
    /\ ixCalls' = <<>>
    /\ seLast' = NoSearch
    /\ UNCHANGED <<ixRejected, ixDirExists, ixCollection, ixCliDone, seFailed, ixOthers>>

\* what a run starts with, once the store is open
BeginRun(mode, coll) ==
    /\ ixMode' = mode
    /\ ixDirExists' = TRUE
    /\ ixCollection' = coll
    /\ ixYield' = iter_supported_files(IxFs(ixFiles, TRUE), {})
    /\ ixQueue' = iter_supported_files(IxFs(ixFiles, TRUE), {})
    /\ ixProcessed' = <<>>
    /\ ixErrors' = <<>>
    /\ ixStats' = ZeroStats
    /\ ixUpserted' = {}
    /\ ixCalls' = <<>>
    /\ ixPc' = "running"
    /\ seLast' = NoSearch
    /\ UNCHANGED <<ixFiles, ixRejected, ixCliDone, seFailed, ixOthers>>

\* The mutant of rebuilt_store: the directory is not removed.
rebuilt_store_kept(exists, coll) == coll

\* shutil.rmtree(chroma_dir) if it exists, then open_store: the collection
\* the index command writes to
rebuilt_store(exists, coll) == EmptyCollection

\* gist index ROOT up to the loop of index_root: the store directory is
\* removed if it exists, the store is opened anew, the walk begins
IndexCommand ==
    /\ ixPc \in {"idle", "returned"}
    /\ ixBase' = <<>>
    /\ ixWiped' = DOMAIN ixCollection \ DOMAIN rebuilt_store(ixDirExists, ixCollection)
    /\ BeginRun("cli", rebuilt_store(ixDirExists, ixCollection))

\* index_root(root, store=open_store(root), ...) called on the store as it is
IndexRootCall ==
    /\ ixPc \in {"idle", "returned"}
    /\ ixBase' = IF ixPc = "returned"
                 THEN <<[stats |-> ixStats, upserted |-> ixUpserted,
                         collection |-> ixCollection]>>
                 ELSE <<>>
    /\ ixWiped' = {}
    /\ BeginRun("lib", ixCollection)

\* one iteration of the loop of index_root
IndexFile ==
    /\ ixPc = "running"
    /\ ixQueue # <<>>
    /\ LET f == Head(ixQueue)
           file_path == ChildPath(Root, IxFileNames[f])
           out == index_file(Root, file_path, ixFiles[f] = "unreadable",
                             IxTreeOf(ixFiles[f]), ixCollection, ixRejected)
       IN /\ ixProcessed' = Append(ixProcessed, f)
          /\ ixCalls' = ixCalls \o out.calls
          /\ IF out.raised # "no"
             THEN /\ ixErrors' = on_file_error(ixErrors, file_path, out.raised)
                  /\ ixQueue' = AfterFileError(ixQueue)
                  /\ UNCHANGED <<ixStats, ixCollection, ixUpserted>>
             ELSE /\ ixQueue' = Tail(ixQueue)
                  /\ ixStats' = IF out.stats = NoFileStats THEN ixStats
                                ELSE AddFileStats(ixStats, out.stats)
                  /\ ixCollection' = out.collection
                  /\ ixUpserted' = ixUpserted \cup out.upserted
                  /\ UNCHANGED ixErrors
    /\ UNCHANGED <<ixFiles, ixRejected, ixDirExists, ixPc, ixMode, ixYield, ixBase,
                   ixCliDone, seLast, seFailed, ixWiped, ixOthers>>

\* the walker is exhausted: index_root returns its IndexStats (and the index
\* command prints them and exits with code 0)
IndexReturn ==
    /\ ixPc = "running"
    /\ ixQueue = <<>>
    /\ ixPc' = "returned"
    /\ ixCliDone' = (ixCliDone \/ ixMode = "cli")
    /\ UNCHANGED <<ixFiles, ixRejected, ixDirExists, ixCollection, ixMode, ixYield,
                   ixQueue, ixProcessed, ixErrors, ixStats, ixUpserted, ixBase,
                   seLast, seFailed, ixCalls, ixWiped, ixOthers>>

\* The mutant of search_begin: the store is opened before the check.
search_begin_open_first(exists) == [raise |-> FALSE, dir_exists |-> TRUE]

\* search up to the query: ClickException when the store directory does not
\* exist, else open_store, which makes the directory if need be
search_begin(exists) ==
    IF ~exists THEN [raise |-> TRUE, dir_exists |-> exists]
    ELSE [raise |-> FALSE, dir_exists |-> TRUE]

\* gist search QUERY ROOT without an index: exit code 1
SearchFails ==
    /\ ixPc \in {"idle", "returned"}
    /\ search_begin(ixDirExists).raise
    /\ ixDirExists' = search_begin(ixDirExists).dir_exists
    /\ seFailed' = TRUE
    /\ seLast' = [exit |-> 1, message |-> "No index found",
                  existed |-> ixDirExists, hits |-> <<>>]
    /\ UNCHANGED <<ixFiles, ixRejected, ixCollection, ixPc, ixMode, ixYield, ixQueue,
                   ixProcessed, ixErrors, ixStats, ixUpserted, ixBase, ixCliDone,
                   ixCalls, ixWiped, ixOthers>>

\* gist search QUERY ROOT with an index: the top hits are printed
SearchPrints ==
    /\ ixPc \in {"idle", "returned"}
    /\ ~search_begin(ixDirExists).raise
    /\ ixDirExists' = search_begin(ixDirExists).dir_exists
    /\ \E r \in NearestRankings(ixCollection, embed_query(IxQuery), SEARCH_TOP_K) :
         seLast' = [exit |-> 0, message |-> "", existed |-> ixDirExists,
                    hits |-> query_hits(QueryResult(ixCollection, embed_query(IxQuery),
                                                    r, TRUE))]
    /\ UNCHANGED <<ixFiles, ixRejected, ixCollection, ixPc, ixMode, ixYield, ixQueue,
                   ixProcessed, ixErrors, ixStats, ixUpserted, ixBase, ixCliDone,
                   seFailed, ixCalls, ixWiped, ixOthers>>

-----------------------------------------------------------------------------
(* main.py: an index command and a search command of one ROOT, side by side *)

\* the loop of index_root run to its end on the files of queue: the
\* collection it leaves
RECURSIVE index_all(_, _, _, _)
index_all(files, queue, coll, rejected) ==
    IF queue = <<>> THEN coll
    ELSE LET f == Head(queue)
             out == index_file(Root, ChildPath(Root, IxFileNames[f]),
                               files[f] = "unreadable", IxTreeOf(files[f]), coll,
                               rejected)
         IN index_all(files, Tail(queue), out.collection, rejected)

\* the store a completed index command leaves for the files of ROOT
complete_index(files, rejected) ==
    index_all(files, iter_supported_files(IxFs(files, TRUE), {}), EmptyCollection,
              rejected)

IxFileStates ==
    {fs \in [DOMAIN IxFileNames -> UNION Range(IxContents)] :
        \A f \in DOMAIN IxFileNames : fs[f] \in IxContents[f]}

\* index: shutil.rmtree(chroma_dir), the directory existing
RaceRmtree ==
    /\ ixPc = "idle"
    /\ ixDirExists
    /\ ixDirExists' = FALSE
    /\ ixCollection' = EmptyCollection
    /\ ixWiped' = DOMAIN ixCollection
    /\ ixPc' = "wiped"
    /\ UNCHANGED <<ixFiles, ixRejected, ixMode, ixYield, ixQueue, ixProcessed,
                   ixErrors, ixStats, ixUpserted, ixBase, ixCliDone, ixCalls, seLast,
                   seFailed, ixOthers>>

\* index: load_gitignore_spec, get_default_embedder, open_store, and
\* index_root up to its loop
RaceOpenStore ==
    /\ ixPc = "wiped"
    /\ ixDirExists' = TRUE
    /\ ixMode' = "cli"
    /\ ixYield' = iter_supported_files(IxFs(ixFiles, TRUE), {})
    /\ ixQueue' = iter_supported_files(IxFs(ixFiles, TRUE), {})
    /\ ixPc' = "running"
    /\ UNCHANGED <<ixFiles, ixRejected, ixCollection, ixProcessed, ixErrors, ixStats,
                   ixUpserted, ixBase, ixCliDone, ixCalls, ixWiped, seLast, seFailed, ixOthers>>

\* search: chroma_dir.exists() is false, ClickException
RaceSearchNoIndex ==
    /\ sePc = "idle"
    /\ ~ixDirExists
    /\ sePc' = "done"
    /\ seFailed' = TRUE
    /\ seLast' = [exit |-> 1, message |-> "No index found", existed |-> ixDirExists,
                  hits |-> <<>>]
    /\ UNCHANGED <<ixFiles, ixRejected, ixDirExists, ixCollection, ixPc, ixMode, ixYield,
                   ixQueue, ixProcessed, ixErrors, ixStats, ixUpserted, ixBase,
                   ixCliDone, ixCalls, ixWiped, seOthers>>

\* search: chroma_dir.exists() is true
RaceSearchCheck ==
    /\ sePc = "idle"
    /\ ixDirExists
    /\ sePc' = "checked"
    /\ UNCHANGED <<ixVars, seOthers>>

\* search: get_default_embedder, open_store (which makes the directory if
\* it is not there)
RaceSearchOpen ==
    /\ sePc = "checked"
    /\ sePc' = "opened"
    /\ ixDirExists' = TRUE
    /\ UNCHANGED <<ixFiles, ixRejected, ixCollection, ixPc, ixMode, ixYield, ixQueue,
                   ixProcessed, ixErrors, ixStats, ixUpserted, ixBase, ixCliDone,
                   ixCalls, ixWiped, seLast, seFailed, seOthers>>

\* search: embed_query, store.query on the collection as it is, the hits
\* printed
RaceSearchQuery ==
    /\ sePc = "opened"
    /\ sePc' = "done"
    /\ \E r \in NearestRankings(ixCollection, embed_query(IxQuery), SEARCH_TOP_K) :
         seLast' = [exit |-> 0, message |-> "", existed |-> TRUE,
                    hits |-> query_hits(QueryResult(ixCollection, embed_query(IxQuery),
                                                    r, TRUE))]
    /\ UNCHANGED <<ixFiles, ixRejected, ixDirExists, ixCollection, ixPc, ixMode, ixYield,
                   ixQueue, ixProcessed, ixErrors, ixStats, ixUpserted, ixBase,
                   ixCliDone, ixCalls, ixWiped, seFailed, seOthers>>

-----------------------------------------------------------------------------
(* The syntax trees a parser can return, within the bounds *)

NodeTypesOf(language) ==
    LANGUAGE_NODE_TYPES[language] \cup {"block"}
        \cup (IF language = "cpp" THEN {"type_identifier"} ELSE {})

\* parent functions of the trees with n nodes in pre-order: the parent of
\* node i is node i-1 or one of its ancestors
Shapes(n) ==
    {p \in [1..n -> 0..n] :
        /\ p[1] = 0
        /\ \A i \in 2..n : p[i] \in 1..(i - 1)
        /\ \A i \in 3..n :
              \A j \in (p[i] + 1)..(i - 1) : p[j] >= p[i]}

\* rows of the nodes: a child lies within its parent, and a later sibling
\* starts no earlier than the row on which the earlier one ends
Rows(p) ==
    LET n == Cardinality(DOMAIN p)
        R == 0..(MaxLine - 1)
    IN {rw \in [1..n -> R \X R] :
           /\ rw[1][1] = 0
           /\ \A i \in 1..n : rw[i][1] <= rw[i][2]
           /\ \A i \in 2..n :
                 /\ rw[p[i]][1] <= rw[i][1]
                 /\ rw[i][2] <= rw[p[i]][2]
           /\ \A i, j \in 2..n :
                 (i < j /\ p[i] = p[j]) => rw[i][2] <= rw[j][1]}

ExPaths ==
    {<<"x", ".", "p", "y">>, <<"x", ".", "j", "s">>, <<"x", ".", "t", "s">>,
     <<"x", ".", "c", "p", "p">>, <<"X", ".", "P", "Y">>, <<"x", ".", "t", "x", "t">>}

InitExtract ==
    /\ LET off == IdOff /\ WkOff /\ StOff /\ IxOff IN off
    /\ stRejectsDuplicates = TRUE
    /\ exPath \in ExPaths
    /\ exPc = "ready"
    /\ exEmitted = <<>>
    /\ exBlocks = <<>>
    /\ IF detect_language(exPath) = NoLanguage
       THEN exTree = EmptyTree
       ELSE \E n \in 1..MaxNodes :
              \E p \in Shapes(n) :
                \E rw \in Rows(p) :
                  \E ty \in [2..n -> NodeTypesOf(detect_language(exPath))] :
                    \E named \in SUBSET {i \in 2..n :
                          ty[i] \in CLASS_NODE_TYPES[detect_language(exPath)]} :
                      exTree =
                        [parent |-> p,
                         type |-> [i \in 1..n |-> IF i = 1 THEN "module" ELSE ty[i]],
                         start_row |-> [i \in 1..n |-> rw[i][1]],
                         end_row |-> [i \in 1..n |-> rw[i][2]],
                         text |-> [i \in 1..n |-> NodeText(i)],
                         name |-> [i \in 1..n |-> IF i \in named THEN <<"A">> ELSE None]]

\* extract_code_blocks(path) on a file of a supported language
ExtractBlocks ==
    /\ exPc = "ready"
    /\ detect_language(exPath) # NoLanguage
    /\ exEmitted' = extract_nodes(exPath, exTree)
    /\ exBlocks' = extract_code_blocks(exPath, exPath, exTree)
    /\ exPc' = "returned"
    /\ UNCHANGED <<exPath, exTree, exOthers>>

\* extract_code_blocks(path) on an unsupported file type: ValueError
ExtractUnsupported ==
    /\ exPc = "ready"
    /\ detect_language(exPath) = NoLanguage
    /\ exPc' = "raised"
    /\ UNCHANGED <<exPath, exTree, exEmitted, exBlocks, exOthers>>

ExOff ==
    /\ exPath = <<>>
    /\ exTree = EmptyTree
    /\ exPc = "off"
    /\ exEmitted = <<>>
    /\ exBlocks = <<>>


-----------------------------------------------------------------------------
(* Specifications: each runs one part of the program, the others are off *)

NextExtract == ExtractBlocks \/ ExtractUnsupported

SpecExtract == InitExtract /\ [][NextExtract]_vars

InitId ==
    /\ LET off == ExOff /\ WkOff /\ StOff /\ IxOff IN off
    /\ stRejectsDuplicates = TRUE
    /\ idFields \in IdTuples
    /\ idBlockId = None

NextId == ComputeBlockId

SpecId == InitId /\ [][NextId]_vars

InitWalk ==
    /\ LET off == ExOff /\ IdOff /\ StOff /\ IxOff IN off
    /\ stRejectsDuplicates = TRUE
    /\ \E n \in 1..MaxEntries :
         \E p \in [1..n -> 0..(n - 1)] :
           \E k \in [1..n -> WkEntryKinds] :
             /\ \A i \in 1..n : p[i] < i /\ (p[i] # 0 => k[p[i]].isDir)
             /\ wkFs = [parent |-> p,
                        isDir |-> [i \in 1..n |-> k[i].isDir],
                        name |-> [i \in 1..n |-> k[i].name]]
             /\ wkIgnored \in SUBSET (1..n)
    /\ wkStack = <<0>>
    /\ wkListed = {}
    /\ wkYielded = <<>>
    /\ wkPc = "walking"

NextWalk == WalkDirectory \/ WalkExhausted

SpecWalk == InitWalk /\ [][NextWalk]_vars

InitStore ==
    /\ LET off == ExOff /\ IdOff /\ WkOff /\ IxOff IN off
    /\ stRejectsDuplicates \in BOOLEAN
    /\ stCollection \in StCollections
    /\ stEngineCalls = 0
    /\ stCall = NoCall
    /\ stHits = <<>>

NextStore == UpsertBlocks \/ QueryRejected \/ QueryHits

SpecStore == InitStore /\ [][NextStore]_vars

\* The pipeline and the commands, run one after the other on a ROOT whose
\* files are edited in between.
Init ==
    /\ LET off == ExOff /\ IdOff /\ WkOff /\ StOff IN off
    /\ stRejectsDuplicates \in BOOLEAN
    /\ ixFiles \in {fs \in [DOMAIN IxFileNames -> UNION Range(IxContents)] :
                       \A f \in DOMAIN IxFileNames : fs[f] \in IxContents[f]}
    /\ ixRejected = IxRejectedTexts
    /\ ixDirExists = FALSE
    /\ ixCollection = EmptyCollection
    /\ ixPc = "idle"
    /\ ixMode = "none"
    /\ ixYield = <<>>
    /\ ixQueue = <<>>
    /\ ixProcessed = <<>>
    /\ ixErrors = <<>>
    /\ ixStats = ZeroStats
    /\ ixUpserted = {}
    /\ ixBase = <<>>
    /\ ixCliDone = FALSE
    /\ ixWiped = {}
    /\ ixCalls = <<>>
    /\ seLast = NoSearch
    /\ seFailed = FALSE
    /\ sePc = "idle"

Next ==
    \/ EditFile
    \/ IndexCommand
    \/ IndexRootCall
    \/ IndexFile
    \/ IndexReturn
    \/ SearchFails
    \/ SearchPrints

Spec == Init /\ [][Next]_vars

\* An index command and a search command of the same ROOT run side by
\* side, on the complete index an earlier index command left (ixBase) for
\* the files as they were then.
InitRace ==
    /\ LET off == ExOff /\ IdOff /\ WkOff /\ StOff IN off
    /\ stRejectsDuplicates \in BOOLEAN
    /\ ixFiles \in IxFileStates
    /\ ixRejected = IxRejectedTexts
    /\ ixDirExists = TRUE
    /\ \E before \in IxFileStates :
          ixCollection = complete_index(before, IxRejectedTexts)
    /\ ixBase = <<[stats |-> ZeroStats, upserted |-> {}, collection |-> ixCollection]>>
    /\ ixPc = "idle"
    /\ ixMode = "none"
    /\ ixYield = <<>>
    /\ ixQueue = <<>>
    /\ ixProcessed = <<>>
    /\ ixErrors = <<>>
    /\ ixStats = ZeroStats
    /\ ixUpserted = {}
    /\ ixCliDone = TRUE
    /\ ixWiped = {}
    /\ ixCalls = <<>>
    /\ seLast = NoSearch
    /\ seFailed = FALSE
    /\ sePc = "idle"

NextRace ==
    \/ RaceRmtree
    \/ RaceOpenStore
    \/ IndexFile
    \/ IndexReturn
    \/ RaceSearchNoIndex
    \/ RaceSearchCheck
    \/ RaceSearchOpen
    \/ RaceSearchQuery

SpecRace == InitRace /\ [][NextRace]_vars

-----------------------------------------------------------------------------
(* Claims about the pipeline and the commands *)

\* the hits a search prints for a collection
IxHitsOf(coll) ==
    {query_hits(QueryResult(coll, embed_query(IxQuery), r, TRUE)) :
        r \in NearestRankings(coll, embed_query(IxQuery), SEARCH_TOP_K)}

\* C12: a search that ran beside an index command started on a complete
\* index exits with code 0, and its hits are those of the complete old
\* index or those of the complete new one.
C12_SearchNeverSeesRebuild ==
    sePc = "done" =>
        /\ seLast.exit = 0
        /\ seLast.hits \in IxHitsOf(ixBase[1].collection)
                              \cup IxHitsOf(complete_index(ixFiles, ixRejected))


\* what _index_file does with file f of ROOT as it is
IxOutcome(f) ==
    index_file(Root, ChildPath(Root, IxFileNames[f]), ixFiles[f] = "unreadable",
               IxTreeOf(ixFiles[f]), ixCollection, ixRejected)

IxRaises(f) == IxOutcome(f).raised # "no"

IxBlockCount(f) ==
    Len(extract_code_blocks(ChildPath(Root, IxFileNames[f]), IxFileNames[f],
                            IxTreeOf(ixFiles[f])))

RECURSIVE IxSumBlocks(_)
IxSumBlocks(files) ==
    IF files = <<>> THEN 0 ELSE IxBlockCount(Head(files)) + IxSumBlocks(Tail(files))

\* the block_ids the blocks of the current files of ROOT have
IxCurrentIds ==
    UNION {LET name == IxFileNames[f]
               blocks == extract_code_blocks(ChildPath(Root, name), name,
                                             IxTreeOf(ixFiles[f]))
           IN {compute_block_id(name, blocks[i].start_line, blocks[i].end_line,
                                compute_content_hash(blocks[i].code)) :
                  i \in 1..Len(blocks)} :
           f \in {g \in DOMAIN ixFiles : ixFiles[g] \notin {"absent", "unreadable"}}}

\* the calls index_root is to make for file f of ROOT
IxExpectedCalls(f) ==
    LET name == IxFileNames[f]
        blocks == IF ixFiles[f] = "unreadable" THEN <<>>
                  ELSE extract_code_blocks(ChildPath(Root, name), name,
                                           IxTreeOf(ixFiles[f]))
        texts == [i \in 1..Len(blocks) |-> blocks[i].code]
        ids == [i \in 1..Len(blocks) |->
                   compute_block_id(name, blocks[i].start_line, blocks[i].end_line,
                                    compute_content_hash(blocks[i].code))]
        embed == [op |-> "embed_texts", file |-> name, texts |-> texts, ids |-> <<>>,
                  embeddings |-> <<>>]
        upsert == [op |-> "upsert_blocks", file |-> name, texts |-> texts, ids |-> ids,
                   embeddings |-> [i \in 1..Len(blocks) |-> embed_text(texts[i])]]
    IN IF blocks = <<>> THEN <<>>
       ELSE IF Range(texts) \cap ixRejected # {} THEN <<embed>>
       ELSE <<embed, upsert>>

RECURSIVE IxExpectedCallsOf(_)
IxExpectedCallsOf(files) ==
    IF files = <<>> THEN <<>>
    ELSE IxExpectedCalls(Head(files)) \o IxExpectedCallsOf(Tail(files))

\* C13: the calls index_root has made are, file after file in the order
\* the files were taken: nothing for a file without blocks; else one
\* embed_texts call on the code texts of that file's blocks in extraction
\* order, followed, unless it raised, by one upsert_blocks call that pairs
\* the i-th block with the embedding of the i-th text; and a block stored by
\* the run carries the embedding of its own code.
C13_OneEmbedOneUpsertPerFile ==
    ixPc \in {"running", "returned"} =>
        /\ ixCalls = IxExpectedCallsOf(ixProcessed)
        /\ \A id \in ixUpserted :
              ixCollection[id].embedding = embed_text(ixCollection[id].document)

C13_Witness ==
    /\ ixPc = "returned"
    /\ Len(ixProcessed) = 2
    /\ Len(ixCalls) = 4
    /\ Len(ixCalls[1].texts) = 2
    /\ ixCalls[2].op = "upsert_blocks"
    /\ ixCalls[3].file # ixCalls[1].file

\* the block_ids index_root has passed to upsert_blocks, in order
RECURSIVE IxUpsertedIds(_)
IxUpsertedIds(calls) ==
    IF calls = <<>> THEN <<>>
    ELSE (IF Head(calls).op = "upsert_blocks" THEN Head(calls).ids ELSE <<>>)
             \o IxUpsertedIds(Tail(calls))

\* the store was empty when this run of index_root began
IxBeganEmpty ==
    \/ ixMode = "cli"
    \/ ixBase # <<>> /\ ixBase[1].collection = EmptyCollection

\* C15: when index_root has run on a store that was empty and no file
\* raised, the blocks of the run have pairwise different block_ids and the
\* store holds as many entries as blocks_indexed says.
C15_DistinctBlocksDistinctIds ==
    (ixPc = "returned" /\ IxBeganEmpty /\ ixErrors = <<>>) =>
        /\ ~HasDuplicates(IxUpsertedIds(ixCalls))
        /\ Cardinality(DOMAIN ixCollection) = ixStats.blocks_indexed

\* C11: once an index command has completed without a per-file error, the
\* block_ids of the store are exactly the block_ids of the blocks of the
\* current files of ROOT, whatever earlier runs had stored.
C11_DestructiveRebuild ==
    (ixPc = "returned" /\ ixMode = "cli" /\ ixErrors = <<>>) =>
        DOMAIN ixCollection = IxCurrentIds

C11_Witness ==
    /\ ixPc = "returned"
    /\ ixMode = "cli"
    /\ ixErrors = <<>>
    /\ ixCollection # EmptyCollection
    /\ ixWiped \ DOMAIN ixCollection # {}

\* C2: in index_root every yielded file is processed, in order, whether or
\* not files before it raised: the files taken so far followed by the ones
\* still to take are the walker's sequence, on_file_error has received
\* exactly one call per failing file taken, with its path and its
\* exception, and index_root returns only once every file is taken.
C2_FailureIsolation ==
    ixPc \in {"running", "returned"} =>
        LET failing == SelectSeq(ixProcessed, IxRaises)
        IN /\ ixProcessed \o ixQueue = ixYield
           /\ ixPc = "returned" => ixQueue = <<>>
           /\ Len(ixErrors) = Len(failing)
           /\ \A i \in 1..Len(failing) :
                 ixErrors[i] = [file_path |-> ChildPath(Root, IxFileNames[failing[i]]),
                                exc |-> IxOutcome(failing[i]).raised]

C2_Witness ==
    /\ ixPc = "returned"
    /\ Len(ixProcessed) = 2
    /\ IxRaises(ixProcessed[1])
    /\ ~IxRaises(ixProcessed[2])
    /\ Len(ixErrors) = 1
    /\ ixStats.files_indexed = 1

\* C4: a second run of index_root on the unchanged root with the same
\* store returns the same IndexStats, upserts the same block_ids and
\* leaves the collection as the first run left it.
C4_ReindexIdempotent ==
    (ixPc = "returned" /\ ixBase # <<>>) =>
        /\ ixStats = ixBase[1].stats
        /\ ixUpserted = ixBase[1].upserted
        /\ ixCollection = ixBase[1].collection

C4_Witness ==
    /\ ixPc = "returned"
    /\ ixMode = "lib"
    /\ ixBase # <<>>
    /\ ixUpserted # {}
    /\ ixErrors # <<>>

\* C7: index_root returns files_indexed = the files yielded minus the files
\* that raised, and blocks_extracted = blocks_indexed = the sum of the block
\* counts of the files that did not raise.
C7_CountsAgree ==
    ixPc = "returned" =>
        LET succeeded == SelectSeq(ixYield, LAMBDA f : ~IxRaises(f))
            raised == SelectSeq(ixYield, IxRaises)
        IN /\ ixStats.files_indexed = Len(ixYield) - Len(raised)
           /\ ixStats.blocks_extracted = ixStats.blocks_indexed
           /\ ixStats.blocks_indexed = IxSumBlocks(succeeded)

C7_Witness ==
    /\ ixPc = "returned"
    /\ \E f \in Range(ixYield) : ~IxRaises(f) /\ IxBlockCount(f) = 0
    /\ \E f \in Range(ixYield) : IxRaises(f)
    /\ ixStats.files_indexed = 1

\* C10: a search exits non-zero, with 'No index found', exactly when the
\* store directory did not exist, and then the directory still does not
\* exist; once an index command has completed the directory exists and a
\* search exits with code 0.
C10_SearchFailsIffNoIndex ==
    /\ seLast # NoSearch =>
          /\ seLast.exit # 0 <=> ~seLast.existed
          /\ seLast.exit # 0 <=> seLast.message = "No index found"
          /\ seLast.exit # 0 => ~ixDirExists
    /\ ixCliDone =>
          /\ ixDirExists
          /\ seLast # NoSearch => seLast.exit = 0

C10_Witness ==
    /\ seFailed
    /\ ixCliDone
    /\ seLast.exit = 0
    /\ ixErrors # <<>>
    /\ ixCollection = EmptyCollection

-----------------------------------------------------------------------------
(* Claims about the extractor *)

\* C1: no two blocks returned by extract_code_blocks have intersecting
\* inclusive line ranges [start_line, end_line].
C1_NoOverlap ==
    exPc = "returned" =>
        \A i, j \in 1..Len(exBlocks) :
            i < j =>
                \/ exBlocks[i].end_line < exBlocks[j].start_line
                \/ exBlocks[j].end_line < exBlocks[i].start_line

\* C6: once a class/struct node is emitted as a block, no node of its subtree
\* is emitted as a separate block.
C6_ClassAbsorbsSubtree ==
    exPc = "returned" =>
        \A i, j \in 1..Len(exEmitted) :
            exTree.type[exEmitted[i]] \in CLASS_NODE_TYPES[detect_language(exPath)]
                => ~IsAncestor(exTree, exEmitted[i], exEmitted[j])

\* a class block was emitted whose subtree holds a method/function node
C6_Witness ==
    /\ exPc = "returned"
    /\ \E i \in 1..Len(exEmitted) :
         /\ exTree.type[exEmitted[i]] \in CLASS_NODE_TYPES[detect_language(exPath)]
         /\ \E n \in Nodes(exTree) :
              /\ IsAncestor(exTree, exEmitted[i], n)
              /\ exTree.type[n] \in LANGUAGE_NODE_TYPES[detect_language(exPath)]

\* C14: every block extract_code_blocks returns has parent_class None: no
\* emitted node lies below a class/struct node.
C14_ParentClassAlwaysNone ==
    exPc = "returned" =>
        /\ \A i \in 1..Len(exBlocks) : exBlocks[i].parent_class = None
        /\ \A i \in 1..Len(exEmitted) :
              \A c \in Nodes(exTree) :
                 exTree.type[c] \in CLASS_NODE_TYPES[detect_language(exPath)]
                     => ~IsAncestor(exTree, c, exEmitted[i])

\* a named class holds a method/function node, and blocks were returned
C14_Witness ==
    /\ exPc = "returned"
    /\ exBlocks # <<>>
    /\ \E c, n \in Nodes(exTree) :
         /\ exTree.type[c] \in CLASS_NODE_TYPES[detect_language(exPath)]
         /\ exTree.name[c] # None
         /\ exTree.parent[n] = c
         /\ exTree.type[n] \in LANGUAGE_NODE_TYPES[detect_language(exPath)]
         /\ resolve_parent_class_name(exTree, detect_language(exPath), n) = exTree.name[c]

-----------------------------------------------------------------------------
(* Claims about the walker *)

\* the ancestors of an entry strictly below root
RECURSIVE WkAncestors(_, _)
WkAncestors(fs, e) ==
    IF fs.parent[e] = 0 THEN {}
    ELSE {fs.parent[e]} \cup WkAncestors(fs, fs.parent[e])

WkPruned(e) ==
    \/ wkFs.name[e] \in DEFAULT_EXCLUDED_DIR_NAMES
    \/ e \in wkIgnored

WkExpected ==
    {e \in Entries(wkFs) :
        /\ ~wkFs.isDir[e]
        /\ detect_language(wkFs.name[e]) \in
               {"python", "javascript", "typescript", "cpp"}
        /\ e \notin wkIgnored
        /\ \A a \in WkAncestors(wkFs, e) : ~WkPruned(a)}

\* C5: iter_supported_files yields exactly once each supported, unignored
\* file with no excluded or ignored ancestor directory below root, and only
\* those; no directory inside an excluded or ignored subtree is ever listed.
C5_WalkYieldsExactly ==
    /\ \A d \in wkListed \ {0} :
          \A a \in WkAncestors(wkFs, d) \cup {d} : ~WkPruned(a)
    /\ wkPc = "done" =>
          /\ Range(wkYielded) = WkExpected
          /\ Len(wkYielded) = Cardinality(WkExpected)

\* the walk ended on a tree with a supported, unignored file inside an
\* ignored directory that is not an excluded name, and with a yielded file
C5_Witness ==
    /\ wkPc = "done"
    /\ wkYielded # <<>>
    /\ \E e \in Entries(wkFs) :
         /\ ~wkFs.isDir[e]
         /\ detect_language(wkFs.name[e]) # NoLanguage
         /\ e \notin wkIgnored
         /\ wkFs.parent[e] \in wkIgnored
         /\ wkFs.name[wkFs.parent[e]] \notin DEFAULT_EXCLUDED_DIR_NAMES

-----------------------------------------------------------------------------
(* Claims about the store *)

StDistanceOfHit(i) ==
    Distance(stCall.collection_before[stHits[i].block_id].embedding, stCall.query)

C9_MalformedCallsRejected ==
    /\ (stCall.op = "upsert" /\ stCall.blocks # stCall.embeddings) =>
          /\ stCall.raised = "ValueError"
          /\ stCollection = stCall.collection_before
          /\ stEngineCalls = stCall.engine_calls_before
    /\ (stCall.op = "query" /\ stCall.top_k <= 0) =>
          /\ stCall.raised = "ValueError"
          /\ stCollection = stCall.collection_before
          /\ stEngineCalls = stCall.engine_calls_before
          /\ stHits = <<>>

\* an upsert of two blocks with one embedding was rejected on a store that
\* already held a block
C9_Witness ==
    /\ stCall.op = "upsert"
    /\ stCall.blocks = 2
    /\ stCall.embeddings = 1
    /\ stCall.raised = "ValueError"
    /\ stCollection # EmptyCollection

====
